---------------------------- MODULE Spec2Model ----------------------------
(***************************************************************************)
(* Client side of the Nexus-Graph streaming protocol:                      *)
(*   - api.chatStream and the useChat hook (chunked HTTP stream),          *)
(*   - the useWebSocketChat hook (socket dispatcher),                      *)
(*   - the chat page's handleSubmit (inline stream parser),                *)
(*   - the useIngestion hook (uploads and job status polling),             *)
(*   - the InlineUpload and UploadModal components (uploadFiles).          *)
(* Byte streams are sequences of one-byte strings, text is a sequence of   *)
(* one-character strings, JSON objects are records.                        *)
(***************************************************************************)
EXTENDS Integers, Sequences, FiniteSets, TLC

(* ------------------------------ bounds -------------------------------- *)
MaxUnits == 2        \* units the server emits for one turn (Scenarios apart)
MaxTurns == 1        \* turns started on one hook
MaxCalls == 2        \* sendMessage calls when abort and clearMessages are in play
MaxProgress == 2     \* progress of an ingestion job, in steps of 1 / MaxProgress

(* ------------------------- characters and bytes ----------------------- *)
NL == "\n"
SP == " "
EAcute == "e-acute"                  \* a character whose UTF-8 encoding has 2 bytes
LeadByte == "C3"
ContByte == "A9"
Replacement == "U+FFFD"        \* what TextDecoder emits for a broken sequence

RECURSIVE Utf8Encode(_)
Utf8Encode(text) ==
    IF text = <<>> THEN <<>>
    ELSE (IF Head(text) = EAcute THEN <<LeadByte, ContByte>> ELSE <<Head(text)>>)
         \o Utf8Encode(Tail(text))

\* TextDecoder.decode(value, {stream}) on the bytes left pending by the
\* previous call followed by value: a lead byte and the continuation byte
\* after it give the character, any other lead or continuation byte gives
\* the replacement character, except that a lead byte at the very end is
\* kept pending when streaming.
Utf8Decode(bytes, stream) ==
    LET n == Len(bytes)
        held == stream /\ n > 0 /\ bytes[n] = LeadByte
        Gone == "<none>"
        out == [i \in 1..n |->
                  IF bytes[i] = LeadByte /\ i < n /\ bytes[i + 1] = ContByte THEN EAcute
                  ELSE IF bytes[i] = ContByte /\ i > 1 /\ bytes[i - 1] = LeadByte THEN Gone
                  ELSE IF i = n /\ held THEN Gone
                  ELSE IF bytes[i] \in {LeadByte, ContByte} THEN Replacement
                  ELSE bytes[i]]
        Kept(c) == c # Gone
    IN  [text |-> SelectSeq(out, Kept), pending |-> IF held THEN <<LeadByte>> ELSE <<>>]

(* ----------------------------- strings -------------------------------- *)
\* String.prototype.split('\n')
SplitLines(s) ==
    LET nls == {i \in 1..Len(s) : s[i] = NL}
        n   == Cardinality(nls)
        \* position of the j-th newline; 0 and Len(s) + 1 bracket the text
        pos(j) == IF j = 0 THEN 0
                  ELSE IF j = n + 1 THEN Len(s) + 1
                  ELSE CHOOSE i \in nls : Cardinality({m \in nls : m < i}) = j - 1
    IN  [j \in 1..(n + 1) |-> SubSeq(s, pos(j - 1) + 1, pos(j) - 1)]

StartsWith(s, p) == Len(s) >= Len(p) /\ SubSeq(s, 1, Len(p)) = p

RECURSIVE TrimStart(_)
TrimStart(s) == IF s # <<>> /\ Head(s) \in {SP, NL} THEN TrimStart(Tail(s)) ELSE s

RECURSIVE TrimEnd(_)
TrimEnd(s) == IF s # <<>> /\ s[Len(s)] \in {SP, NL} THEN TrimEnd(SubSeq(s, 1, Len(s)-1)) ELSE s

Trim(s) == TrimEnd(TrimStart(s))

DataPrefix == <<"d", "a", "t", "a", ":">>
EventPrefix == <<"e", "v", "e", "n", "t", ":">>

(* ------------------------------- JSON --------------------------------- *)
StepRunningA   == [agent |-> "switchboard", status |-> "running", thinking |-> "routing"]
StepCompletedA == [agent |-> "switchboard", status |-> "completed", output_summary |-> "routed"]
StepRunningB   == [agent |-> "librarian", status |-> "running", thinking |-> "searching"]
StepPendingA   == [agent |-> "switchboard", status |-> "pending"]
StepPendingB   == [agent |-> "librarian", status |-> "pending"]
StepCompletedB == [agent |-> "librarian", status |-> "completed", output_summary |-> "found"]
TerminalChunk  == [content |-> "pong", response_type |-> "table",
                   processing_time_ms |-> 12, conversation_id |-> "conv1"]
DataBlock      == [response_type |-> "table", content |-> "rows"]

WsStep(s)  == [type |-> "step", data |-> s]
WsResponse == [type |-> "response",
               data |-> [message |-> "pong", data |-> DataBlock, processing_time_ms |-> 12]]
WsAck      == [type |-> "ack"]
WsError    == [type |-> "error", data |-> [message |-> "pipeline failed"]]

\* The JSON documents of the model: a document is the text "{c}" and c
\* selects the value it denotes.
JsonDoc ==
    [c \in {"1", "2", EAcute, "4", "5", "6", "7",
             "a", "b", "c", "d", "e", "f", "g", "k", "x"} |->
        CASE c = "1"    -> StepRunningA
          [] c = "2"    -> StepCompletedA
          [] c = EAcute -> StepRunningB
          [] c = "4"    -> TerminalChunk
          [] c = "5"    -> StepPendingA
          [] c = "6"    -> StepPendingB
          [] c = "7"    -> StepCompletedB
          [] c = "a"    -> WsStep(StepRunningA)
          [] c = "b"    -> WsStep(StepCompletedA)
          [] c = "c"    -> WsStep(StepRunningB)
          [] c = "e"    -> WsStep(StepPendingA)
          [] c = "f"    -> WsStep(StepPendingB)
          [] c = "g"    -> WsStep(StepCompletedB)
          [] c = "d"    -> WsResponse
          [] c = "k"    -> WsAck
          [] c = "x"    -> WsError]

ParseError == [parseError |-> TRUE]

\* JSON.parse: the value of a well-formed document, ParseError (a thrown
\* SyntaxError) for any other text.
JSONparse(text) ==
    IF Len(text) = 3 /\ text[1] = "{" /\ text[3] = "}" /\ text[2] \in DOMAIN JsonDoc
    THEN JsonDoc[text[2]]
    ELSE ParseError

(* --------------------------- JavaScript values ------------------------ *)
Null == [null |-> TRUE]
NoId == "<null>"                       \* conversationId === null
Undefined == "<undefined>"
DefaultContent == "I processed your request."

Has(o, f) == f \in DOMAIN o
TruthyStr(o, f) == Has(o, f) /\ o[f] # ""
TruthyNum(o, f) == Has(o, f) /\ o[f] # 0
AgentOf(o) == IF Has(o, "agent") THEN o.agent ELSE Undefined

\* { ...s, ...c }
Spread(s, c) == [f \in (DOMAIN s) \cup (DOMAIN c) |-> IF f \in DOMAIN c THEN c[f] ELSE s[f]]

(* ------------------- server side of one turn (spec section 6) --------- *)
\* The logical units a server emits: step events, the terminal result and
\* a unit whose JSON is cut short.
Units == {"runA", "doneA", "runB", "result", "bad"}
StepUnits == {"pendA", "runA", "doneA", "pendB", "runB", "doneB"}
\* "noop" carries no payload (an SSE "event:" line, a socket 'ack'); "fail"
\* is the 'error' terminal event of the socket protocol
WsUnits == Units \cup {"noop", "fail"}

\* longer turns that are always part of the inputs: a malformed unit
\* between two valid ones, two agents with a second event for the first,
\* and a turn that starts with a unit without payload
\* the end-to-end scenario of spec section 8: two agents going pending,
\* running, completed, then the terminal payload
PingScenario == <<"pendA", "runA", "doneA", "pendB", "runB", "doneB", "result">>

Scenarios == {<<"runA", "bad", "runB">>, <<"runA", "runB", "doneA">>,
              <<"noop", "runA", "result">>, PingScenario}

Scripts == Scenarios \cup UNION {[1..n -> Units] : n \in 0..MaxUnits}
WsScripts == Scenarios \cup UNION {[1..n -> WsUnits] : n \in 0..MaxUnits}

\* the code of the JSON document a unit is sent as, per transport
HttpCode(u) == CASE u = "runA" -> "1" [] u = "doneA" -> "2" [] u = "runB" -> EAcute
                 [] u = "result" -> "4" [] u = "pendA" -> "5" [] u = "pendB" -> "6"
                 [] u = "doneB" -> "7" [] OTHER -> "1"
WsCode(u)   == CASE u = "runA" -> "a" [] u = "doneA" -> "b" [] u = "runB" -> "c"
                 [] u = "result" -> "d" [] u = "noop" -> "k" [] u = "fail" -> "x"
                 [] u = "pendA" -> "e" [] u = "pendB" -> "f" [] u = "doneB" -> "g"
                 [] OTHER -> "a"

\* one unit as lines of the text/event-stream body
HttpText(u) ==
    CASE u = "noop" -> EventPrefix \o <<NL>>
      [] u = "bad"  -> DataPrefix \o <<SP, "{", HttpCode(u), NL>>
      [] OTHER      -> DataPrefix \o <<SP, "{", HttpCode(u), "}", NL>>

RECURSIVE HttpBody(_)
HttpBody(units) ==
    IF units = <<>> THEN <<>> ELSE Utf8Encode(HttpText(Head(units))) \o HttpBody(Tail(units))

\* one unit as the text of one socket message
WsText(u) == IF u = "bad" THEN <<"{", WsCode(u)>> ELSE <<"{", WsCode(u), "}">>

WsFrames(units) == [i \in 1..Len(units) |-> WsText(units[i])]

(* -------------------------------- state ------------------------------- *)
VARIABLES script,          \* the units the server emits in answer to a request
          messages, isLoading, currentSteps, conversationId,
          turns,           \* one record per sendMessage call that passed the guard
          onErrorCalls     \* number of options.onError invocations

chatVars == <<messages, isLoading, currentSteps, conversationId, turns, onErrorCalls>>

VARIABLES wsConn,          \* readyState of the socket made by the mount effect
          wsMessages, wsIsConnected, wsIsLoading, wsCurrentSteps,
          wsInbox,         \* frames sent by the server, not yet delivered
          wsHandled,       \* history: the parsed messages that reached the switch
          wsSent,          \* number of sendMessage calls that passed the guard
          wsSendThrows     \* number of sendMessage calls that threw out of ws.send

wsVars == <<wsConn, wsMessages, wsIsConnected, wsIsLoading, wsCurrentSteps,
            wsInbox, wsHandled, wsSent, wsSendThrows>>

VARIABLES pgMessages, pgIsLoading, pgCurrentSteps, pgCurrentData, pgShowDataViewer,
          pg,              \* the handleSubmit call: position, body, locals
          pgToasts,        \* the toasts shown, in order
          pgSubmits        \* number of handleSubmit calls that passed the guard

pageVars == <<pgMessages, pgIsLoading, pgCurrentSteps, pgCurrentData, pgShowDataViewer,
              pg, pgToasts, pgSubmits>>

VARIABLES jobs,            \* useIngestion: the Map job id -> IngestionJobStatus
          isUploading,
          uploads,         \* the uploadFile / uploadFiles calls awaiting their response
          polls,           \* per job id the position of its poll chain
          ingErrors,       \* the errors handed to options.onError: <<files or job, message>>
          ingFiles,        \* the files the user has not submitted yet
          srv              \* the Job Registry: job id -> status and progress

ingVars == <<jobs, isUploading, uploads, polls, ingErrors, ingFiles, srv>>

VARIABLES component,       \* the upload component on screen: InlineUpload or UploadModal
          upFiles,         \* its files state: the list of UploadedFile
          upIsUploading,
          upCall,          \* the uploadFiles call: position, files of its closure, loop index
          upIntervals,     \* ids of the files whose progress interval is running
          upTimers,        \* ids of the files whose completion timeout is pending
          upPosted         \* history: per file id how its upload request settled

upVars == <<component, upFiles, upIsUploading, upCall, upIntervals, upTimers, upPosted>>

vars == <<script, chatVars, wsVars, pageVars, ingVars, upVars>>

\* what the actions of one client leave alone
chatFrame == <<script, wsVars, pageVars, ingVars, upVars>>
wsFrame   == <<script, chatVars, pageVars, ingVars, upVars>>
pageFrame == <<script, chatVars, wsVars, ingVars, upVars>>
ingFrame  == <<script, chatVars, wsVars, pageVars, upVars>>
upFrame   == <<script, chatVars, wsVars, pageVars, ingVars>>

(* ------------------------ the step list reducer ----------------------- *)
\* variant: the entry of a known agent is replaced by the event, not merged
UpdateStepsOverwrite(prev, ev) ==
    IF \E i \in 1..Len(prev) : AgentOf(prev[i]) = AgentOf(ev)
    THEN [i \in 1..Len(prev) |-> IF AgentOf(prev[i]) = AgentOf(ev) THEN ev ELSE prev[i]]
    ELSE Append(prev, ev)

\* variant: the merge of a known agent's entry lets the old fields win
UpdateStepsKeepOld(prev, ev) ==
    IF \E i \in 1..Len(prev) : AgentOf(prev[i]) = AgentOf(ev)
    THEN [i \in 1..Len(prev) |->
            IF AgentOf(prev[i]) = AgentOf(ev) THEN Spread(ev, prev[i]) ELSE prev[i]]
    ELSE Append(prev, ev)

\* variant: the merged entry of a known agent moves to the end of the list
UpdateStepsMoveLast(prev, ev) ==
    IF \E i \in 1..Len(prev) : AgentOf(prev[i]) = AgentOf(ev)
    THEN LET Other(e) == AgentOf(e) # AgentOf(ev)
             Same(e)  == AgentOf(e) = AgentOf(ev)
         IN  Append(SelectSeq(prev, Other), Spread(Head(SelectSeq(prev, Same)), ev))
    ELSE Append(prev, ev)

\* setCurrentSteps((prev) => ...) of useChat, useWebSocketChat and the page
UpdateSteps(prev, ev) ==
    IF \E i \in 1..Len(prev) : AgentOf(prev[i]) = AgentOf(ev)
    THEN [i \in 1..Len(prev) |->
            IF AgentOf(prev[i]) = AgentOf(ev) THEN Spread(prev[i], ev) ELSE prev[i]]
    ELSE Append(prev, ev)

(* ---------------------------- api.chatStream -------------------------- *)
\* variant: a line that fails to parse ends the loop over the lines
RECURSIVE YieldLinesStopOnError(_)
YieldLinesStopOnError(lines) ==
    IF lines = <<>> THEN <<>>
    ELSE LET line == Head(lines)
             data == JSONparse(Trim(SubSeq(line, 6, Len(line))))
         IN  IF StartsWith(line, DataPrefix) /\ data = ParseError THEN <<>>
             ELSE (IF StartsWith(line, DataPrefix) THEN <<data>> ELSE <<>>)
                  \o YieldLinesStopOnError(Tail(lines))

\* the for loop over the complete lines: the events yielded, in order
RECURSIVE YieldLines(_)
YieldLines(lines) ==
    IF lines = <<>> THEN <<>>
    ELSE LET line == Head(lines)
             data == JSONparse(Trim(SubSeq(line, 6, Len(line))))
         IN  (IF StartsWith(line, DataPrefix) /\ data # ParseError THEN <<data>> ELSE <<>>)
             \o YieldLines(Tail(lines))

\* variant: the unfinished last line is not kept for the next read
ChatStreamReadNoCarry(decoder, buffer, value) ==
    LET d     == Utf8Decode(decoder \o value, TRUE)
        lines == SplitLines(d.text)
    IN  [decoder |-> d.pending,
         buffer  |-> lines[Len(lines)],
         yielded |-> YieldLines(SubSeq(lines, 1, Len(lines) - 1))]

\* one iteration of the while loop after reader.read() gave value
ChatStreamRead(decoder, buffer, value) ==
    LET d     == Utf8Decode(decoder \o value, TRUE)
        lines == SplitLines(buffer \o d.text)
    IN  [decoder |-> d.pending,
         buffer  |-> lines[Len(lines)],
         yielded |-> YieldLines(SubSeq(lines, 1, Len(lines) - 1))]

(* ------------------------------- useChat ------------------------------ *)
Contents == {<<"p", "i", "n", "g">>, <<SP, "p", "i", "n", "g">>, <<SP>>}

\* body of the for-await loop for one chunk; st holds the hook state and
\* the locals of the call
ChatLoopBody(st, chunk) ==
    LET setId  == TruthyStr(chunk, "conversation_id") /\ st.newConversationId = NoId
        isStep == TruthyStr(chunk, "agent")
    IN  [st EXCEPT
            !.newConversationId = IF setId THEN chunk.conversation_id ELSE @,
            !.conversationId    = IF setId THEN chunk.conversation_id ELSE @,
            !.currentSteps      = IF isStep THEN UpdateSteps(@, chunk) ELSE @,
            !.executionTrace    = IF isStep THEN Append(@, chunk) ELSE @,
            !.assistantContent  = IF Has(chunk, "content") THEN chunk.content ELSE @,
            !.responseData      = IF TruthyStr(chunk, "response_type") THEN chunk ELSE @,
            !.processingTime    = IF TruthyNum(chunk, "processing_time_ms")
                                  THEN chunk.processing_time_ms ELSE @]

RECURSIVE ChatConsume(_, _)
ChatConsume(st, chunks) ==
    IF chunks = <<>> THEN st ELSE ChatConsume(ChatLoopBody(st, Head(chunks)), Tail(chunks))

UserMessage(content) == [role |-> "user", content |-> Trim(content)]

AssistantMessage(tr) ==
    [role |-> "assistant",
     content |-> IF tr.assistantContent # "" THEN tr.assistantContent ELSE DefaultContent,
     data |-> tr.responseData,
     executionTrace |-> tr.executionTrace,
     processingTime |-> tr.processingTime]

\* the locals of a sendMessage call and the state of its chatStream
\* generator (wire: body bytes not yet read; yielded: history of the
\* events the generator yielded; aborted: history, abort() was called
\* while the call was running)
NewTurn(pc, id) ==
    [pc |-> pc, wire |-> <<>>, decoder |-> <<>>, buffer |-> <<>>, yielded |-> <<>>,
     assistantContent |-> "", responseData |-> Null, executionTrace |-> <<>>,
     processingTime |-> 0, newConversationId |-> id, aborted |-> FALSE]

\* sendMessage up to the first await, for at most limit calls
ChatSendMessageUpTo(content, limit) ==
    /\ Trim(content) # <<>>
    /\ ~isLoading
    /\ Len(turns) < limit
    /\ messages' = Append(messages, UserMessage(content))
    /\ isLoading' = TRUE
    /\ currentSteps' = <<>>
    /\ turns' = Append(turns, NewTurn("fetch", conversationId))
    /\ UNCHANGED <<conversationId, onErrorCalls>>
    /\ UNCHANGED chatFrame

ChatSendMessage(content) == ChatSendMessageUpTo(content, MaxTurns)

\* variant: the catch block runs but the finally block does not
ChatThrowNoFinally(t) ==
    /\ onErrorCalls' = onErrorCalls + 1
    /\ turns' = [turns EXCEPT ![t] = NewTurn("thrown", NoId)]
    /\ UNCHANGED <<messages, isLoading, currentSteps, conversationId>>
    /\ UNCHANGED chatFrame

\* catch and finally of sendMessage; the locals of the call are gone
ChatThrow(t) ==
    /\ onErrorCalls' = onErrorCalls + 1
    /\ turns' = [turns EXCEPT ![t] = NewTurn("thrown", NoId)]
    /\ isLoading' = FALSE
    /\ currentSteps' = <<>>
    /\ UNCHANGED <<messages, conversationId>>
    /\ UNCHANGED chatFrame

\* fetch settles: a 2xx response with a body starts the read loop, anything
\* else throws out of chatStream
ChatFetch(t, resp) ==
    /\ turns[t].pc = "fetch"
    /\ IF resp = "ok"
       THEN /\ turns' = [turns EXCEPT ![t].pc = "read", ![t].wire = HttpBody(script)]
            /\ UNCHANGED <<messages, isLoading, currentSteps, conversationId, onErrorCalls>>
            /\ UNCHANGED chatFrame
       ELSE ChatThrow(t)

\* reader.read() resolves with the next k bytes
ChatRead(t, k) ==
    /\ turns[t].pc = "read"
    /\ k \in 1..Len(turns[t].wire)
    /\ \E r \in {ChatStreamRead(turns[t].decoder, turns[t].buffer, SubSeq(turns[t].wire, 1, k))} :
       \E st \in {ChatConsume([currentSteps |-> currentSteps,
                               conversationId |-> conversationId,
                               newConversationId |-> turns[t].newConversationId,
                               assistantContent |-> turns[t].assistantContent,
                               responseData |-> turns[t].responseData,
                               executionTrace |-> turns[t].executionTrace,
                               processingTime |-> turns[t].processingTime], r.yielded)} :
           /\ turns' = [turns EXCEPT
                ![t].wire = SubSeq(@, k + 1, Len(@)),
                ![t].decoder = r.decoder,
                ![t].buffer = r.buffer,
                ![t].yielded = @ \o r.yielded,
                ![t].newConversationId = st.newConversationId,
                ![t].assistantContent = st.assistantContent,
                ![t].responseData = st.responseData,
                ![t].executionTrace = st.executionTrace,
                ![t].processingTime = st.processingTime]
           /\ currentSteps' = st.currentSteps
           /\ conversationId' = st.conversationId
    /\ UNCHANGED <<messages, isLoading, onErrorCalls>>
    /\ UNCHANGED chatFrame

\* reader.read() resolves with done: the loop ends, the assistant message
\* is appended, finally runs
ChatReadDone(t) ==
    /\ turns[t].pc = "read"
    /\ messages' = Append(messages, AssistantMessage(turns[t]))
    /\ turns' = [turns EXCEPT ![t] = NewTurn("returned", NoId)]
    /\ isLoading' = FALSE
    /\ currentSteps' = <<>>
    /\ UNCHANGED <<conversationId, onErrorCalls>>
    /\ UNCHANGED chatFrame

\* reader.read() rejects
ChatReadError(t) ==
    /\ turns[t].pc = "read"
    /\ ChatThrow(t)

\* clearMessages()
ChatClearMessages ==
    /\ messages' = <<>>
    /\ conversationId' = NoId
    /\ currentSteps' = <<>>
    /\ UNCHANGED <<isLoading, turns, onErrorCalls>>
    /\ UNCHANGED chatFrame

\* abort(): abortControllerRef.current is never assigned, so the optional
\* call does nothing; no signal is passed to fetch and the reader is not
\* cancelled, so the calls in flight go on.
ChatAbort ==
    /\ isLoading' = FALSE
    /\ currentSteps' = <<>>
    /\ turns' = [t \in DOMAIN turns |->
                    IF turns[t].pc \in {"fetch", "read"}
                    THEN [turns[t] EXCEPT !.aborted = TRUE] ELSE turns[t]]
    /\ UNCHANGED <<messages, conversationId, onErrorCalls>>
    /\ UNCHANGED chatFrame

ChatInit ==
    /\ messages = <<>>
    /\ isLoading = FALSE
    /\ currentSteps = <<>>
    /\ conversationId = NoId
    /\ turns = <<>>
    /\ onErrorCalls = 0

ChatNext ==
    \/ \E content \in Contents : ChatSendMessage(content)
    \/ \E t \in DOMAIN turns : \E resp \in {"ok", "non2xx", "rejected", "nobody"} : ChatFetch(t, resp)
    \/ \E t \in DOMAIN turns : \E k \in 1..Len(turns[t].wire) : ChatRead(t, k)
    \/ \E t \in DOMAIN turns : ChatReadDone(t)
    \/ \E t \in DOMAIN turns : ChatReadError(t)

(* --------------------------- useWebSocketChat ------------------------- *)
WsAssistantMessage(d) ==
    [role |-> "assistant", content |-> d.message, data |-> d.data,
     processingTime |-> d.processing_time_ms]

WsOnOpen ==
    /\ wsConn = "connecting"
    /\ wsConn' = "open"
    /\ wsIsConnected' = TRUE
    /\ UNCHANGED <<wsMessages, wsIsLoading, wsCurrentSteps, wsInbox, wsHandled, wsSent, wsSendThrows>>
    /\ UNCHANGED wsFrame

\* the socket closes (server, network, failed connect); frames still in
\* flight are never delivered
WsOnClose ==
    /\ wsConn \in {"connecting", "open"}
    /\ wsConn' = "closed"
    /\ wsIsConnected' = FALSE
    /\ wsInbox' = <<>>
    /\ UNCHANGED <<wsMessages, wsIsLoading, wsCurrentSteps, wsHandled, wsSent, wsSendThrows>>
    /\ UNCHANGED wsFrame

\* ws.onmessage for the frame at the head of the inbox
WsOnMessage ==
    /\ wsConn = "open"
    /\ wsInbox # <<>>
    /\ wsInbox' = Tail(wsInbox)
    /\ LET data == JSONparse(Head(wsInbox))
       IN  IF data = ParseError
           THEN UNCHANGED <<wsMessages, wsIsLoading, wsCurrentSteps, wsHandled>>
           ELSE /\ wsHandled' = Append(wsHandled, data)
                /\ CASE data.type = "step" ->
                          /\ wsCurrentSteps' = UpdateSteps(wsCurrentSteps, data.data)
                          /\ UNCHANGED <<wsMessages, wsIsLoading>>
                     [] data.type = "response" ->
                          /\ wsMessages' = Append(wsMessages, WsAssistantMessage(data.data))
                          /\ wsIsLoading' = FALSE
                          /\ wsCurrentSteps' = <<>>
                     [] data.type = "error" ->
                          /\ wsIsLoading' = FALSE
                          /\ wsCurrentSteps' = <<>>
                          /\ UNCHANGED wsMessages
                     [] OTHER ->
                          UNCHANGED <<wsMessages, wsIsLoading, wsCurrentSteps>>
    /\ UNCHANGED <<wsConn, wsIsConnected, wsSent, wsSendThrows>>
    /\ UNCHANGED wsFrame

\* sendMessage: wsRef.current is set by the mount effect, so the guard
\* reduces to the content and isLoading.  ws.send throws on a connecting
\* socket, drops the data on a closed one, and reaches the server on an
\* open one, which answers with the frames of the script.
WsSendMessage(content) ==
    /\ Trim(content) # <<>>
    /\ ~wsIsLoading
    /\ wsSent < MaxTurns
    /\ wsMessages' = Append(wsMessages, UserMessage(content))
    /\ wsIsLoading' = TRUE
    /\ wsCurrentSteps' = <<>>
    /\ wsSent' = wsSent + 1
    /\ wsHandled' = <<>>
    /\ wsInbox' = IF wsConn = "open" THEN wsInbox \o WsFrames(script) ELSE wsInbox
    /\ wsSendThrows' = IF wsConn = "connecting" THEN wsSendThrows + 1 ELSE wsSendThrows
    /\ UNCHANGED <<wsConn, wsIsConnected>>
    /\ UNCHANGED wsFrame

\* what the hook hands to its caller: the state fields of the returned
\* object (sendMessage and clearMessages are functions).  The hook takes no
\* options, so it has no callback to invoke.
WsReturned ==
    [messages |-> wsMessages, isConnected |-> wsIsConnected,
     isLoading |-> wsIsLoading, currentSteps |-> wsCurrentSteps]

WsInit ==
    /\ wsConn = "connecting"
    /\ wsMessages = <<>>
    /\ wsIsConnected = FALSE
    /\ wsIsLoading = FALSE
    /\ wsCurrentSteps = <<>>
    /\ wsInbox = <<>>
    /\ wsHandled = <<>>
    /\ wsSent = 0
    /\ wsSendThrows = 0

WsNext ==
    \/ WsOnOpen
    \/ WsOnClose
    \/ WsOnMessage
    \/ \E content \in Contents : WsSendMessage(content)

(* ----------------------- HomePage.handleSubmit ------------------------- *)
\* the for loop over the lines of one chunk: the payloads that parsed, in
\* order.  line.replace('data:', '') removes the prefix the line starts with.
RECURSIVE PageLines(_)
PageLines(lines) ==
    IF lines = <<>> THEN <<>>
    ELSE LET line == Head(lines)
             data == JSONparse(Trim(SubSeq(line, 6, Len(line))))
         IN  (IF /\ ~StartsWith(line, EventPrefix)
                 /\ StartsWith(line, DataPrefix)
                 /\ data # ParseError
              THEN <<data>> ELSE <<>>) \o PageLines(Tail(lines))

\* decoder.decode(value) and chunk.split('\n') of one read
PageChunk(value) == PageLines(SplitLines(Utf8Decode(value, FALSE).text))

\* what the try block does with one parsed payload
PageLoopBody(st, data) ==
    LET isStep == TruthyStr(data, "agent")
    IN  [st EXCEPT
            !.currentSteps     = IF isStep THEN UpdateSteps(@, data) ELSE @,
            !.executionTrace   = IF isStep THEN Append(@, data) ELSE @,
            !.assistantContent = IF Has(data, "content") THEN data.content ELSE @,
            !.responseData     = IF TruthyStr(data, "response_type") THEN data ELSE @,
            !.processingTime   = IF TruthyNum(data, "processing_time_ms")
                                 THEN data.processing_time_ms ELSE @]

RECURSIVE PageConsume(_, _)
PageConsume(st, payloads) ==
    IF payloads = <<>> THEN st
    ELSE PageConsume(PageLoopBody(st, Head(payloads)), Tail(payloads))

\* applied: history of the payloads the loop applied
PageCall(pc) ==
    [pc |-> pc, wire |-> <<>>, applied |-> <<>>,
     assistantContent |-> "", responseData |-> Null, executionTrace |-> <<>>,
     processingTime |-> 0]

\* handleSubmit up to the first await
PageSubmit(input) ==
    /\ Trim(input) # <<>>
    /\ ~pgIsLoading
    /\ pgSubmits < MaxTurns
    /\ pgMessages' = Append(pgMessages, UserMessage(input))
    /\ pgIsLoading' = TRUE
    /\ pgCurrentSteps' = <<>>
    /\ pg' = PageCall("fetch")
    /\ pgSubmits' = pgSubmits + 1
    /\ UNCHANGED <<pgCurrentData, pgShowDataViewer, pgToasts>>
    /\ UNCHANGED pageFrame

\* the code after the read loop, then finally
PageFinish(call) ==
    /\ pgMessages' = Append(pgMessages, AssistantMessage(call))
    /\ IF call.responseData # Null /\ call.responseData.response_type # "text"
       THEN pgCurrentData' = call.responseData /\ pgShowDataViewer' = TRUE
       ELSE UNCHANGED <<pgCurrentData, pgShowDataViewer>>
    /\ pgToasts' = Append(pgToasts, "success")
    /\ pg' = PageCall("idle")
    /\ pgIsLoading' = FALSE
    /\ pgCurrentSteps' = <<>>
    /\ UNCHANGED pgSubmits
    /\ UNCHANGED pageFrame

\* catch, then finally
PageCatch ==
    /\ pgToasts' = Append(pgToasts, "error")
    /\ pg' = PageCall("idle")
    /\ pgIsLoading' = FALSE
    /\ pgCurrentSteps' = <<>>
    /\ UNCHANGED <<pgMessages, pgCurrentData, pgShowDataViewer, pgSubmits>>
    /\ UNCHANGED pageFrame

\* fetch settles: rejected or not ok throws; a response without a body
\* skips the read loop
PageFetch(resp) ==
    /\ pg.pc = "fetch"
    /\ CASE resp = "ok" ->
              /\ pg' = [pg EXCEPT !.pc = "read", !.wire = HttpBody(script)]
              /\ UNCHANGED <<pgMessages, pgIsLoading, pgCurrentSteps, pgCurrentData,
                             pgShowDataViewer, pgToasts, pgSubmits>>
              /\ UNCHANGED pageFrame
         [] resp = "nobody" -> PageFinish(pg)
         [] OTHER -> PageCatch

\* reader.read() resolves with the next k bytes
PageRead(k) ==
    /\ pg.pc = "read"
    /\ k \in 1..Len(pg.wire)
    /\ \E payloads \in {PageChunk(SubSeq(pg.wire, 1, k))} :
       \E st \in {PageConsume([currentSteps |-> pgCurrentSteps,
                               assistantContent |-> pg.assistantContent,
                               responseData |-> pg.responseData,
                               executionTrace |-> pg.executionTrace,
                               processingTime |-> pg.processingTime], payloads)} :
           /\ pg' = [pg EXCEPT
                !.wire = SubSeq(@, k + 1, Len(@)),
                !.applied = @ \o payloads,
                !.assistantContent = st.assistantContent,
                !.responseData = st.responseData,
                !.executionTrace = st.executionTrace,
                !.processingTime = st.processingTime]
           /\ pgCurrentSteps' = st.currentSteps
    /\ UNCHANGED <<pgMessages, pgIsLoading, pgCurrentData, pgShowDataViewer, pgToasts, pgSubmits>>
    /\ UNCHANGED pageFrame

\* reader.read() resolves with done
PageReadDone ==
    /\ pg.pc = "read"
    /\ PageFinish(pg)

\* reader.read() rejects
PageReadError ==
    /\ pg.pc = "read"
    /\ PageCatch

PageInit ==
    /\ pgMessages = <<>>
    /\ pgIsLoading = FALSE
    /\ pgCurrentSteps = <<>>
    /\ pgCurrentData = Null
    /\ pgShowDataViewer = FALSE
    /\ pg = PageCall("idle")
    /\ pgToasts = <<>>
    /\ pgSubmits = 0

PageNext ==
    \/ \E input \in Contents : PageSubmit(input)
    \/ \E resp \in {"ok", "non2xx", "rejected", "nobody"} : PageFetch(resp)
    \/ \E k \in 1..Len(pg.wire) : PageRead(k)
    \/ PageReadDone
    \/ PageReadError

(* ----------------------------- useIngestion --------------------------- *)
Files == {"a.pdf", "b.pdf"}
JobOf(f) == IF f = "a.pdf" THEN "job-a" ELSE "job-b"
FileOf(j) == CHOOSE f \in Files : JobOf(f) = j

EmptyMap == [j \in {} |-> Null]

\* variant: the new map holds the entry set and nothing of prev
MapSetAlone(m, k, v) == [x \in {k} |-> v]

\* new Map(prev).set(k, v)
MapSet(m, k, v) == [x \in (DOMAIN m) \cup {k} |-> IF x = k THEN v ELSE m[x]]

\* one set(k, v[k]) for each key of v
MapSetAll(m, v) == [x \in (DOMAIN m) \cup (DOMAIN v) |-> IF x \in DOMAIN v THEN v[x] ELSE m[x]]

\* variant: the record put in the map starts with some progress
InitialJobStarted(j, name) ==
    [job_id |-> j, status |-> "pending", filename |-> name, progress |-> 1,
     chunks_processed |-> 0, total_chunks |-> 0]

\* the record uploadFile and uploadFiles put in the map
InitialJob(j, name) ==
    [job_id |-> j, status |-> "pending", filename |-> name, progress |-> 0,
     chunks_processed |-> 0, total_chunks |-> 0]

\* the body of a 2xx answer of the status endpoint for job j
StatusOf(j) ==
    LET base == [job_id |-> j, status |-> srv[j].status, filename |-> FileOf(j),
                 progress |-> srv[j].progress, chunks_processed |-> srv[j].progress,
                 total_chunks |-> MaxProgress]
    IN  IF srv[j].status = "failed" THEN Spread(base, [error |-> "pipeline failed"]) ELSE base

Terminal(status) == status \in {"completed", "failed"}

\* the registry creates the jobs of the accepted files
SrvCreate(fs) ==
    MapSetAll(srv, [j \in {JobOf(f) : f \in fs} |-> [status |-> "pending", progress |-> 0]])

\* the processing pipeline writes the status of job j:
\* pending -> processing -> completed | failed, progress never decreasing
SrvAdvance(j) ==
    /\ j \in DOMAIN srv
    /\ \/ /\ srv[j].status = "pending"
          /\ srv' = [srv EXCEPT ![j].status = "processing"]
       \/ /\ srv[j].status = "processing" /\ srv[j].progress < MaxProgress
          /\ srv' = [srv EXCEPT ![j].progress = @ + 1]
       \/ /\ srv[j].status = "processing" /\ srv[j].progress = MaxProgress
          /\ srv' = [srv EXCEPT ![j].status = "completed"]
       \/ /\ srv[j].status = "processing"
          /\ srv' = [srv EXCEPT ![j].status = "failed"]
    /\ UNCHANGED <<jobs, isUploading, uploads, polls, ingErrors, ingFiles>>
    /\ UNCHANGED ingFrame

\* the registry loses job j (restart, eviction): its id is unknown from then on
SrvForget(j) ==
    /\ j \in DOMAIN srv
    /\ srv' = [k \in (DOMAIN srv) \ {j} |-> srv[k]]
    /\ UNCHANGED <<jobs, isUploading, uploads, polls, ingErrors, ingFiles>>
    /\ UNCHANGED ingFrame

\* uploadFile(file) up to the await
IngUploadFile(f) ==
    /\ f \in ingFiles
    /\ ingFiles' = ingFiles \ {f}
    /\ isUploading' = TRUE
    /\ uploads' = uploads \cup {[kind |-> "file", files |-> {f}]}
    /\ UNCHANGED <<jobs, polls, ingErrors, srv>>
    /\ UNCHANGED ingFrame

\* uploadFiles(files) up to the await
IngUploadFiles(fs) ==
    /\ fs # {} /\ fs \subseteq ingFiles
    /\ ingFiles' = ingFiles \ fs
    /\ isUploading' = TRUE
    /\ uploads' = uploads \cup {[kind |-> "files", files |-> fs]}
    /\ UNCHANGED <<jobs, polls, ingErrors, srv>>
    /\ UNCHANGED ingFrame

\* variant: the accepted jobs are polled but no record is put in the map
IngUploadAcceptedNoRecord(call, accepted) ==
    /\ call \in uploads
    /\ accepted \subseteq call.files
    /\ call.kind = "file" => accepted = call.files
    /\ srv' = SrvCreate(accepted)
    /\ jobs' = jobs
    /\ polls' = MapSetAll(polls, [j \in {JobOf(f) : f \in accepted} |-> "request"])
    /\ isUploading' = FALSE
    /\ uploads' = uploads \ {call}
    /\ UNCHANGED <<ingErrors, ingFiles>>
    /\ UNCHANGED ingFrame

\* the upload request of a call is answered 2xx: the registry has created
\* a job for each accepted file (uploadFiles: an entry of response.jobs
\* without job_id is skipped); each job gets its record, then
\* pollJobStatus sends the first status request; finally runs
IngUploadAccepted(call, accepted) ==
    /\ call \in uploads
    /\ accepted \subseteq call.files
    /\ call.kind = "file" => accepted = call.files
    /\ srv' = SrvCreate(accepted)
    /\ jobs' = MapSetAll(jobs, [j \in {JobOf(f) : f \in accepted} |->
                                   InitialJob(j, FileOf(j))])
    /\ polls' = MapSetAll(polls, [j \in {JobOf(f) : f \in accepted} |-> "request"])
    /\ isUploading' = FALSE
    /\ uploads' = uploads \ {call}
    /\ UNCHANGED <<ingErrors, ingFiles>>
    /\ UNCHANGED ingFrame

\* the upload request is rejected or answered non-2xx: catch, finally
IngUploadRejected(call) ==
    /\ call \in uploads
    /\ ingErrors' = ingErrors \cup {<<call.files, "Upload failed">>}
    /\ isUploading' = FALSE
    /\ uploads' = uploads \ {call}
    /\ UNCHANGED <<jobs, polls, ingFiles, srv>>
    /\ UNCHANGED ingFrame

\* variant: the chain of a job goes on after a terminal status
IngPollResponseNoStop(j) ==
    /\ j \in DOMAIN polls /\ polls[j] = "request"
    /\ j \in DOMAIN srv
    /\ jobs' = MapSet(jobs, j, StatusOf(j))
    /\ polls' = [polls EXCEPT ![j] = "timer"]
    /\ ingErrors' = IF srv[j].status = "failed"
                    THEN ingErrors \cup {<<{j}, "pipeline failed">>} ELSE ingErrors
    /\ UNCHANGED <<isUploading, uploads, ingFiles, srv>>
    /\ UNCHANGED ingFrame

\* poll(): the status request of job j is answered 2xx
IngPollResponse(j) ==
    /\ j \in DOMAIN polls /\ polls[j] = "request"
    /\ j \in DOMAIN srv
    /\ jobs' = MapSet(jobs, j, StatusOf(j))
    /\ polls' = [polls EXCEPT ![j] = IF Terminal(srv[j].status) THEN "stopped" ELSE "timer"]
    /\ ingErrors' = IF srv[j].status = "failed"
                    THEN ingErrors \cup {<<{j}, "pipeline failed">>} ELSE ingErrors
    /\ UNCHANGED <<isUploading, uploads, ingFiles, srv>>
    /\ UNCHANGED ingFrame

\* poll(): the status request is rejected or answered non-2xx
IngPollError(j) ==
    /\ j \in DOMAIN polls /\ polls[j] = "request"
    /\ polls' = [polls EXCEPT ![j] = "stopped"]
    /\ ingErrors' = ingErrors \cup {<<{j}, "Status check failed">>}
    /\ UNCHANGED <<jobs, isUploading, uploads, ingFiles, srv>>
    /\ UNCHANGED ingFrame

NotFoundMessage == "Status check failed: Not Found"

\* variant: an unknown job id marks the cached record as failed
IngPollNotFoundAsFailed(j) ==
    /\ j \in DOMAIN polls /\ polls[j] = "request"
    /\ j \notin DOMAIN srv
    /\ polls' = [polls EXCEPT ![j] = "stopped"]
    /\ ingErrors' = ingErrors \cup {<<{j}, NotFoundMessage>>}
    /\ jobs' = IF j \in DOMAIN jobs THEN [jobs EXCEPT ![j].status = "failed"] ELSE jobs
    /\ UNCHANGED <<isUploading, uploads, ingFiles, srv>>
    /\ UNCHANGED ingFrame

\* poll(): the registry does not know job j, the status request is
\* answered 404: getIngestionStatus throws 'Status check failed: ' +
\* statusText, the catch hands it to onError, the chain ends
IngPollNotFound(j) ==
    /\ j \in DOMAIN polls /\ polls[j] = "request"
    /\ j \notin DOMAIN srv
    /\ polls' = [polls EXCEPT ![j] = "stopped"]
    /\ ingErrors' = ingErrors \cup {<<{j}, NotFoundMessage>>}
    /\ UNCHANGED <<jobs, isUploading, uploads, ingFiles, srv>>
    /\ UNCHANGED ingFrame

\* the timer set by setTimeout(poll, interval) fires: the next request
IngTimer(j) ==
    /\ j \in DOMAIN polls /\ polls[j] = "timer"
    /\ polls' = [polls EXCEPT ![j] = "request"]
    /\ UNCHANGED <<jobs, isUploading, uploads, ingErrors, ingFiles, srv>>
    /\ UNCHANGED ingFrame

\* clearJobs()
IngClearJobs ==
    /\ jobs' = EmptyMap
    /\ UNCHANGED <<isUploading, uploads, polls, ingErrors, ingFiles, srv>>
    /\ UNCHANGED ingFrame

IngInit ==
    /\ jobs = EmptyMap
    /\ isUploading = FALSE
    /\ uploads = {}
    /\ polls = EmptyMap
    /\ ingErrors = {}
    /\ ingFiles = Files
    /\ srv = EmptyMap

IngNext ==
    \/ \E f \in Files : IngUploadFile(f)
    \/ \E fs \in SUBSET Files : IngUploadFiles(fs)
    \/ \E call \in uploads : \E accepted \in SUBSET call.files : IngUploadAccepted(call, accepted)
    \/ \E call \in uploads : IngUploadRejected(call)
    \/ \E j \in DOMAIN polls : IngPollResponse(j)
    \/ \E j \in DOMAIN polls : IngPollError(j)
    \/ \E j \in DOMAIN polls : IngPollNotFound(j)
    \/ \E j \in DOMAIN polls : IngTimer(j)
    \/ IngClearJobs
    \/ \E j \in DOMAIN srv : SrvAdvance(j)
    \/ \E j \in DOMAIN srv : SrvForget(j)

(* --------------------- InlineUpload and UploadModal -------------------- *)
Components == {"InlineUpload", "UploadModal"}
FileIds == {"f1", "f2"}

\* the job id in the body of a 2xx upload response
UpJobOf(id) == IF id = "f1" THEN "job-1" ELSE "job-2"

\* setFiles((prev) => prev.map((f) => f.id === id ? { ...f, ...patch } : f))
PatchFile(prev, id, patch) ==
    [i \in DOMAIN prev |-> IF prev[i].id = id THEN Spread(prev[i], patch) ELSE prev[i]]

\* the first file at or after position from that the loop does not skip
\* (0: none); the status tested is the one of the closure's list
NextPending(snapshot, from) ==
    IF \E k \in from..Len(snapshot) : snapshot[k].status = "pending"
    THEN CHOOSE k \in from..Len(snapshot) :
            /\ snapshot[k].status = "pending"
            /\ \A m \in from..(k - 1) : snapshot[m].status # "pending"
    ELSE 0

UpIdleCall == [pc |-> "idle", snapshot |-> <<>>, i |-> 0]

\* the file whose upload the call is awaiting
UpCurrent == upCall.snapshot[upCall.i].id

\* addFiles with one new file
UpAddFiles(id) ==
    /\ \A i \in DOMAIN upFiles : upFiles[i].id # id
    /\ upFiles' = Append(upFiles, [id |-> id, status |-> "pending", progress |-> 0])
    /\ UNCHANGED <<component, upIsUploading, upCall, upIntervals, upTimers, upPosted>>
    /\ UNCHANGED upFrame

\* InlineUpload.uploadFiles: the for loop from position from up to its next
\* await (the fetch of the next pending file, after its interval was
\* started) or to the end of the call
InlineLoop(snapshot, from, files, intervals) ==
    LET k == NextPending(snapshot, from)
    IN  IF k = 0
        THEN /\ upCall' = UpIdleCall
             /\ upIsUploading' = FALSE
             /\ upFiles' = files
             /\ upIntervals' = intervals
        ELSE /\ upCall' = [pc |-> "fetch", snapshot |-> snapshot, i |-> k]
             /\ upIsUploading' = TRUE
             /\ upFiles' = PatchFile(files, snapshot[k].id,
                                     [status |-> "uploading", progress |-> 0])
             /\ upIntervals' = intervals \cup {snapshot[k].id}

\* click on the upload button, shown while a file is pending and disabled
\* while isUploading
InlineUploadFiles ==
    /\ component = "InlineUpload"
    /\ ~upIsUploading
    /\ \E i \in DOMAIN upFiles : upFiles[i].status = "pending"
    /\ InlineLoop(upFiles, 1, upFiles, upIntervals)
    /\ UNCHANGED <<component, upTimers, upPosted>>
    /\ UNCHANGED upFrame

\* the interval callback of file id
InlineTick(id) ==
    /\ component = "InlineUpload"
    /\ id \in upIntervals
    /\ upFiles' = [i \in DOMAIN upFiles |->
                      IF upFiles[i].id = id /\ upFiles[i].progress < 90
                      THEN Spread(upFiles[i], [progress |-> upFiles[i].progress + 10])
                      ELSE upFiles[i]]
    /\ UNCHANGED <<component, upIsUploading, upCall, upIntervals, upTimers, upPosted>>
    /\ UNCHANGED upFrame

\* await fetch settles: a rejection goes straight to the catch block, a
\* response clears the interval and, if not ok, throws
InlineFetchSettles(resp) ==
    /\ component = "InlineUpload"
    /\ upCall.pc = "fetch"
    /\ upPosted' = MapSet(upPosted, UpCurrent, resp)
    /\ upIntervals' = IF resp = "rejected" THEN upIntervals ELSE upIntervals \ {UpCurrent}
    /\ upCall' = [upCall EXCEPT !.pc = IF resp = "ok" THEN "json" ELSE "catch"]
    /\ UNCHANGED <<component, upFiles, upIsUploading, upTimers>>
    /\ UNCHANGED upFrame

\* await response.json() settles
InlineJsonSettles(parsed) ==
    /\ component = "InlineUpload"
    /\ upCall.pc = "json"
    /\ IF parsed
       THEN /\ upTimers' = upTimers \cup {UpCurrent}
            /\ InlineLoop(upCall.snapshot, upCall.i + 1,
                          PatchFile(upFiles, UpCurrent,
                                    [status |-> "processing", progress |-> 70,
                                     jobId |-> UpJobOf(UpCurrent)]),
                          upIntervals)
       ELSE /\ upCall' = [upCall EXCEPT !.pc = "catch"]
            /\ UNCHANGED <<upFiles, upIsUploading, upIntervals, upTimers>>
    /\ UNCHANGED <<component, upPosted>>
    /\ UNCHANGED upFrame

\* the catch block after its delay
InlineCatch ==
    /\ component = "InlineUpload"
    /\ upCall.pc = "catch"
    /\ InlineLoop(upCall.snapshot, upCall.i + 1,
                  PatchFile(upFiles, UpCurrent, [status |-> "completed", progress |-> 100]),
                  upIntervals)
    /\ UNCHANGED <<component, upTimers, upPosted>>
    /\ UNCHANGED upFrame

\* the completion timeout of file id
InlineCompletionTimer(id) ==
    /\ component = "InlineUpload"
    /\ id \in upTimers
    /\ upTimers' = upTimers \ {id}
    /\ upFiles' = PatchFile(upFiles, id, [status |-> "completed", progress |-> 100])
    /\ UNCHANGED <<component, upIsUploading, upCall, upIntervals, upPosted>>
    /\ UNCHANGED upFrame

\* UploadModal.uploadFiles: the for loop from position from up to its next
\* await or to the end of the call
ModalLoop(snapshot, from, files) ==
    LET k == NextPending(snapshot, from)
    IN  IF k = 0
        THEN /\ upCall' = UpIdleCall
             /\ upIsUploading' = FALSE
             /\ upFiles' = files
        ELSE /\ upCall' = [pc |-> "fetch", snapshot |-> snapshot, i |-> k]
             /\ upIsUploading' = TRUE
             /\ upFiles' = PatchFile(files, snapshot[k].id,
                                     [status |-> "uploading", progress |-> 0])

\* the catch block of UploadModal.uploadFiles
ModalFailed(files, id) ==
    PatchFile(files, id, [status |-> "failed", error |-> "Upload failed. Please try again."])

\* click on the upload button, disabled without pending files and while
\* isUploading
ModalUploadFiles ==
    /\ component = "UploadModal"
    /\ ~upIsUploading
    /\ \E i \in DOMAIN upFiles : upFiles[i].status = "pending"
    /\ ModalLoop(upFiles, 1, upFiles)
    /\ UNCHANGED <<component, upIntervals, upTimers, upPosted>>
    /\ UNCHANGED upFrame

\* await fetch settles: a rejection or a response that is not ok ends in
\* the catch block, which marks the file failed and goes on with the loop
ModalFetchSettles(resp) ==
    /\ component = "UploadModal"
    /\ upCall.pc = "fetch"
    /\ upPosted' = MapSet(upPosted, UpCurrent, resp)
    /\ IF resp = "ok"
       THEN /\ upCall' = [upCall EXCEPT !.pc = "json"]
            /\ UNCHANGED <<upFiles, upIsUploading>>
       ELSE ModalLoop(upCall.snapshot, upCall.i + 1, ModalFailed(upFiles, UpCurrent))
    /\ UNCHANGED <<component, upIntervals, upTimers>>
    /\ UNCHANGED upFrame

\* await response.json() settles
ModalJsonSettles(parsed) ==
    /\ component = "UploadModal"
    /\ upCall.pc = "json"
    /\ IF parsed
       THEN /\ upTimers' = upTimers \cup {UpCurrent}
            /\ ModalLoop(upCall.snapshot, upCall.i + 1,
                         PatchFile(upFiles, UpCurrent,
                                   [status |-> "processing", progress |-> 50,
                                    jobId |-> UpJobOf(UpCurrent)]))
       ELSE /\ ModalLoop(upCall.snapshot, upCall.i + 1, ModalFailed(upFiles, UpCurrent))
            /\ UNCHANGED upTimers
    /\ UNCHANGED <<component, upIntervals, upPosted>>
    /\ UNCHANGED upFrame

\* the completion timeout of file id
ModalCompletionTimer(id) ==
    /\ component = "UploadModal"
    /\ id \in upTimers
    /\ upTimers' = upTimers \ {id}
    /\ upFiles' = PatchFile(upFiles, id, [status |-> "completed", progress |-> 100])
    /\ UNCHANGED <<component, upIsUploading, upCall, upIntervals, upPosted>>
    /\ UNCHANGED upFrame

UpInit ==
    /\ upFiles = <<>>
    /\ upIsUploading = FALSE
    /\ upCall = UpIdleCall
    /\ upIntervals = {}
    /\ upTimers = {}
    /\ upPosted = EmptyMap

UpNext ==
    \/ \E id \in FileIds : UpAddFiles(id)
    \/ InlineUploadFiles
    \/ \E id \in FileIds : InlineTick(id)
    \/ \E resp \in {"ok", "non2xx", "rejected"} : InlineFetchSettles(resp)
    \/ \E parsed \in BOOLEAN : InlineJsonSettles(parsed)
    \/ InlineCatch
    \/ \E id \in FileIds : InlineCompletionTimer(id)
    \/ ModalUploadFiles
    \/ \E resp \in {"ok", "non2xx", "rejected"} : ModalFetchSettles(resp)
    \/ \E parsed \in BOOLEAN : ModalJsonSettles(parsed)
    \/ \E id \in FileIds : ModalCompletionTimer(id)

(* --------------------------- specifications --------------------------- *)
\* one upload component alone
InitUpload == script = <<>> /\ ChatInit /\ WsInit /\ PageInit /\ IngInit
              /\ component \in Components /\ UpInit
NextUpload == UpNext
SpecUpload == InitUpload /\ [][NextUpload]_vars

\* useIngestion and the Job Registry
InitIngest == script = <<>> /\ ChatInit /\ WsInit /\ PageInit /\ IngInit
          /\ component = "InlineUpload" /\ UpInit
NextIngest == IngNext
SpecIngest == InitIngest /\ [][NextIngest]_vars

\* the chat page alone
InitPage == script \in Scripts /\ ChatInit /\ WsInit /\ PageInit /\ IngInit
          /\ component = "InlineUpload" /\ UpInit
NextPage == PageNext
SpecPage == InitPage /\ [][NextPage]_vars

\* useChat alone
InitChat == script \in Scripts /\ ChatInit /\ WsInit /\ PageInit /\ IngInit
          /\ component = "InlineUpload" /\ UpInit
NextChat == ChatNext
SpecChat == InitChat /\ [][NextChat]_vars

\* useChat with abort and clearMessages; the server flushes after every
\* line, so a read gives one line (chunk boundaries are SpecChat's matter)
FirstLine(wire) ==
    IF \E i \in 1..Len(wire) : wire[i] = NL
    THEN CHOOSE i \in 1..Len(wire) : wire[i] = NL /\ \A j \in 1..(i - 1) : wire[j] # NL
    ELSE Len(wire)

InitCtl == script \in Scripts /\ ChatInit /\ WsInit /\ PageInit /\ IngInit
          /\ component = "InlineUpload" /\ UpInit
NextCtl ==
    \/ \E content \in Contents : ChatSendMessageUpTo(content, MaxCalls)
    \/ \E t \in DOMAIN turns : \E resp \in {"ok", "non2xx"} : ChatFetch(t, resp)
    \/ \E t \in DOMAIN turns : turns[t].wire # <<>> /\ ChatRead(t, FirstLine(turns[t].wire))
    \/ \E t \in DOMAIN turns : turns[t].wire = <<>> /\ ChatReadDone(t)
    \/ \E t \in DOMAIN turns : ChatReadError(t)
    \/ ChatAbort
    \/ ChatClearMessages
SpecCtl == InitCtl /\ [][NextCtl]_vars

\* useWebSocketChat alone
InitWs == script \in WsScripts /\ ChatInit /\ WsInit /\ PageInit /\ IngInit
          /\ component = "InlineUpload" /\ UpInit
NextWs == WsNext
SpecWs == InitWs /\ [][NextWs]_vars

\* One request answered with the same script on both transports: the
\* socket hook is driven first, the stream hook once the socket turn is
\* over, the chat page once the stream hook has returned (the three
\* clients share no state), neither transport fails.
WsReplayOver == wsSent = 1 /\ wsConn = "open" /\ wsInbox = <<>>

ReplayWs ==
    /\ turns = <<>>
    /\ \/ WsOnOpen
       \/ \E content \in Contents : wsSent = 0 /\ wsConn = "open" /\ WsSendMessage(content)
       \/ WsOnMessage

ReplayChat ==
    /\ WsReplayOver
    /\ \/ \E content \in Contents : turns = <<>> /\ ChatSendMessage(content)
       \/ \E t \in DOMAIN turns : ChatFetch(t, "ok")
       \/ \E t \in DOMAIN turns : \E k \in 1..Len(turns[t].wire) : ChatRead(t, k)
       \/ \E t \in DOMAIN turns : turns[t].wire = <<>> /\ ChatReadDone(t)

ChatReplayOver == WsReplayOver /\ \E t \in DOMAIN turns : turns[t].pc = "returned"

ReplayPage ==
    /\ ChatReplayOver
    /\ \/ \E input \in Contents : pgSubmits = 0 /\ PageSubmit(input)
       \/ PageFetch("ok")
       \/ \E k \in 1..Len(pg.wire) : PageRead(k)
       \/ pg.wire = <<>> /\ PageReadDone

Init == script \in Scripts /\ ChatInit /\ WsInit /\ PageInit /\ IngInit
          /\ component = "InlineUpload" /\ UpInit
Next == ReplayWs \/ ReplayChat \/ ReplayPage
Spec == Init /\ [][Next]_vars

(* ------------------------------ properties ---------------------------- *)
IsStepEvent(e) == Has(e, "agent")
AgentsOf(trace) == {AgentOf(trace[i]) : i \in DOMAIN trace}

EventsOf(trace, a) ==
    LET ForAgent(e) == AgentOf(e) = a IN SelectSeq(trace, ForAgent)

OnePerAgent(steps, trace) ==
    /\ Len(steps) = Cardinality(AgentsOf(trace))
    /\ {AgentOf(steps[i]) : i \in DOMAIN steps} = AgentsOf(trace)

\* every entry equals the last event of its agent
EntriesAreLastEvents(steps, trace) ==
    \A i \in DOMAIN steps :
        LET evs == EventsOf(trace, AgentOf(steps[i])) IN steps[i] = evs[Len(evs)]

\* every field of an entry has the value of the last event of its agent
\* that carried the field
EntriesAreLastFields(steps, trace) ==
    \A i \in DOMAIN steps :
        LET evs == EventsOf(trace, AgentOf(steps[i]))
        IN  /\ DOMAIN steps[i] = UNION {DOMAIN evs[j] : j \in DOMAIN evs}
            /\ \A f \in DOMAIN steps[i] :
                  LET last == CHOOSE j \in DOMAIN evs :
                                /\ Has(evs[j], f)
                                /\ \A k \in DOMAIN evs : Has(evs[k], f) => k <= j
                  IN  steps[i][f] = evs[last][f]

\* the step events the socket hook handled since its step list was last reset
WsTurnSteps ==
    LET closers == {i \in DOMAIN wsHandled : wsHandled[i].type \in {"response", "error"}}
        from    == IF closers = {} THEN 0
                   ELSE CHOOSE i \in closers : \A j \in closers : j <= i
        IsStep(m) == m.type = "step"
        rest    == SelectSeq(SubSeq(wsHandled, from + 1, Len(wsHandled)), IsStep)
    IN  [i \in DOMAIN rest |-> rest[i].data]

\* a valid turn: step events followed by one terminal result
IsTurnSequence(units) ==
    /\ units # <<>>
    /\ units[Len(units)] = "result"
    /\ \A i \in 1..(Len(units) - 1) : units[i] \in StepUnits

SameField(a, b, f) == Has(a, f) = Has(b, f) /\ (Has(a, f) => a[f] = b[f])
TraceOf(m) == IF Has(m, "executionTrace") THEN m.executionTrace ELSE <<>>

\* the fields of a message that do not depend on the transport's encoding;
\* a message without an execution trace counts as one with an empty trace
SameMessage(a, b) ==
    /\ \A f \in {"role", "content", "processingTime"} : SameField(a, b, f)
    /\ TraceOf(a) = TraceOf(b)

\* C1: for a valid turn sequence, the messages left by useChat equal the
\* messages left by useWebSocketChat after the same sequence.
C1_SameStateOnBothTransports ==
    (/\ IsTurnSequence(script)
     /\ WsReplayOver
     /\ \E t \in DOMAIN turns : turns[t].pc = "returned")
    => /\ Len(messages) = Len(wsMessages)
       /\ \A i \in DOMAIN messages : SameMessage(messages[i], wsMessages[i])

\* C2 (as stated): during a turn the step list has one entry per agent
\* seen, equal to the last event received for that agent.
C2_EntryEqualsLastEvent ==
    /\ \A t \in DOMAIN turns : turns[t].pc = "read" =>
          /\ OnePerAgent(currentSteps, turns[t].executionTrace)
          /\ EntriesAreLastEvents(currentSteps, turns[t].executionTrace)
    /\ /\ OnePerAgent(wsCurrentSteps, WsTurnSteps)
       /\ EntriesAreLastEvents(wsCurrentSteps, WsTurnSteps)

\* C2 (amended): during a turn the step list has one entry per agent seen,
\* and each field of the entry has the value of the last event of that
\* agent that carried the field.
C2_EntryIsMergeOfEvents ==
    /\ \A t \in DOMAIN turns : turns[t].pc = "read" =>
          /\ OnePerAgent(currentSteps, turns[t].executionTrace)
          /\ EntriesAreLastFields(currentSteps, turns[t].executionTrace)
    /\ /\ OnePerAgent(wsCurrentSteps, WsTurnSteps)
       /\ EntriesAreLastFields(wsCurrentSteps, WsTurnSteps)

C2_Witness ==
    /\ \E t \in DOMAIN turns :
          /\ turns[t].pc = "read"
          /\ turns[t].executionTrace = <<StepRunningA, StepRunningB, StepCompletedA>>
          /\ Len(currentSteps) = 2
    /\ Len(WsTurnSteps) = 3

\* the body bytes chatStream has read so far in turn t
Delivered(t) ==
    LET body == HttpBody(script) IN SubSeq(body, 1, Len(body) - Len(turns[t].wire))

\* C3: whatever the chunk boundaries, chatStream has yielded the events,
\* and holds the buffer, that one read of all the bytes so far gives.
C3_ChunkingInvariant ==
    \A t \in DOMAIN turns : turns[t].pc = "read" =>
        LET whole == ChatStreamRead(<<>>, <<>>, Delivered(t))
        IN  /\ turns[t].yielded = whole.yielded
            /\ turns[t].buffer = whole.buffer
            /\ turns[t].decoder = whole.decoder

\* a read ended inside a line, between the two bytes of a character, after
\* an earlier line was parsed
C3_Witness ==
    \E t \in DOMAIN turns :
        /\ turns[t].pc = "read"
        /\ turns[t].yielded # <<>>
        /\ turns[t].buffer # <<>>
        /\ turns[t].decoder # <<>>

\* the values a script's well-formed units denote, per transport
RECURSIVE ExpectedChunks(_)
ExpectedChunks(units) ==
    IF units = <<>> THEN <<>>
    ELSE (IF Head(units) \in StepUnits \cup {"result"}
          THEN <<JsonDoc[HttpCode(Head(units))]>> ELSE <<>>) \o ExpectedChunks(Tail(units))

RECURSIVE ExpectedEnvelopes(_)
ExpectedEnvelopes(units) ==
    IF units = <<>> THEN <<>>
    ELSE (IF Head(units) # "bad"
          THEN <<JsonDoc[WsCode(Head(units))]>> ELSE <<>>) \o ExpectedEnvelopes(Tail(units))

\* C4: once the whole body was read, the payloads the page applied are
\* those one read of the whole body gives, whatever the chunk boundaries.
C4_PageChunkingInvariant ==
    (pg.pc = "read" /\ pg.wire = <<>>) => pg.applied = PageChunk(HttpBody(script))

\* C5: once every byte (every frame) of a script was delivered, the events
\* handed to the reducer are those of the well-formed units, in order; a
\* malformed unit is skipped and does not end the stream.
C5_MalformedUnitDropped ==
    /\ \A t \in DOMAIN turns : (turns[t].pc = "read" /\ turns[t].wire = <<>>) =>
          turns[t].yielded = ExpectedChunks(script)
    /\ WsReplayOver => wsHandled = ExpectedEnvelopes(script)

C5_Witness ==
    /\ Len(script) = 3
    /\ script[1] \in StepUnits /\ script[2] = "bad" /\ script[3] \in StepUnits
    /\ WsReplayOver
    /\ Len(wsHandled) = 2
    /\ \E t \in DOMAIN turns :
          turns[t].pc = "read" /\ turns[t].wire = <<>> /\ Len(turns[t].yielded) = 2

\* a terminal result has reached the hook in the current turn
ChatTurnClosed(t) == \E i \in DOMAIN turns[t].yielded : Has(turns[t].yielded[i], "content")
WsTurnClosed == \E i \in DOMAIN wsHandled : wsHandled[i].type \in {"response", "error"}

\* C6: once the terminal message of a turn was handled, no later message
\* of that turn changes the step list.
C6_NoStepAfterClosure ==
    [][(WsTurnClosed /\ wsSent' = wsSent) => wsCurrentSteps' = wsCurrentSteps]_vars

CountRole(msgs, r) == Cardinality({i \in DOMAIN msgs : msgs[i].role = r})

\* C7: there is at most one assistant message per user message.
C7_OneResultPerTurn ==
    /\ CountRole(messages, "assistant") <= CountRole(messages, "user")
    /\ CountRole(wsMessages, "assistant") <= CountRole(wsMessages, "user")

\* C8: a stream that ends before a terminal result was received ends the
\* call with an error and appends no assistant message.
C8_EarlyEndIsAnError ==
    [][\A t \in DOMAIN turns :
          (/\ turns[t].pc = "read"
           /\ ~ChatTurnClosed(t)
           /\ turns'[t].pc \in {"returned", "thrown"})
          => (turns'[t].pc = "thrown" /\ messages' = messages)]_vars

\* C9: a sendMessage call that ends leaves isLoading false and the step
\* list empty; a call can only end by throwing when fetch did not give a
\* body to read; a call that throws has invoked onError once and has not
\* appended a message.
C9_TurnAlwaysUnblocks ==
    [][\A t \in DOMAIN turns :
          (turns[t].pc \in {"fetch", "read"} /\ turns'[t].pc \in {"returned", "thrown"})
          => /\ isLoading' = FALSE
             /\ currentSteps' = <<>>
             /\ turns[t].pc = "fetch" => turns'[t].pc = "thrown"
             /\ turns'[t].pc = "thrown" =>
                   (onErrorCalls' = onErrorCalls + 1 /\ messages' = messages)
             /\ turns'[t].pc = "returned" =>
                   (onErrorCalls' = onErrorCalls /\ Len(messages') = Len(messages) + 1)]_vars

C9_Witness ==
    \E t \in DOMAIN turns :
        /\ turns[t].pc = "thrown"
        /\ onErrorCalls = 1
        /\ ~isLoading
        /\ currentSteps = <<>>
        /\ CountRole(messages, "assistant") = 0

\* C10: when the socket closes, the hook is not left loading.
C10_CloseClearsLoading ==
    [][(wsConn = "open" /\ wsConn' = "closed") => ~wsIsLoading']_vars

\* turn t is running: its sendMessage call has neither returned nor thrown
ChatInFlight(t) == turns[t].pc \in {"fetch", "read"}

\* C11: once abort() was called during a turn, no step of that turn changes
\* messages, currentSteps or conversationId.
C11_AbortStopsTurn ==
    [][\A t \in DOMAIN turns :
          (turns[t].aborted /\ turns'[t] # turns[t])
          => /\ messages' = messages
             /\ currentSteps' = currentSteps
             /\ conversationId' = conversationId]_vars

\* job j was removed from the map by clearJobs: it has a poll chain (its
\* upload was accepted, which also put its record) but no record
Cleared(j) == j \in DOMAIN polls /\ j \notin DOMAIN jobs

\* C12: after clearJobs, the poll chain of a removed job does nothing more:
\* its timer does not fire, no status request is sent and no poll puts the
\* job back in the map.
C12_ClearCancelsPolling ==
    [][\A j \in DOMAIN polls :
          Cleared(j) => /\ j \notin DOMAIN jobs'
                        /\ polls[j] = "timer" => polls'[j] \in {"timer", "stopped"}]_vars

\* an agent recorded as completed or failed in old is pending or running in new
Regresses(old, new) ==
    \E i \in DOMAIN old : \E k \in DOMAIN new :
        /\ AgentOf(old[i]) = AgentOf(new[k])
        /\ old[i].status \in {"completed", "failed"}
        /\ new[k].status \in {"pending", "running"}

\* C13: no step takes the recorded status of an agent from completed or
\* failed back to pending or running.
C13_StatusNeverRegresses ==
    [][/\ ~Regresses(currentSteps, currentSteps')
       /\ ~Regresses(wsCurrentSteps, wsCurrentSteps')]_vars

AgentOrder(steps) == [i \in DOMAIN steps |-> AgentOf(steps[i])]

\* the agents of a trace in the order of their first events
FirstSeen(trace) ==
    LET firsts == {i \in DOMAIN trace :
                     \A j \in 1..(i - 1) : AgentOf(trace[j]) # AgentOf(trace[i])}
        nth(k) == CHOOSE i \in firsts : Cardinality({m \in firsts : m < i}) = k - 1
    IN  [k \in 1..Cardinality(firsts) |-> AgentOf(trace[nth(k)])]

\* C14: during a turn the entries of the step list are in the order in
\* which their agents were first seen, whatever events came later.
C14_InsertionOrder ==
    /\ \A t \in DOMAIN turns : turns[t].pc = "read" =>
          AgentOrder(currentSteps) = FirstSeen(turns[t].executionTrace)
    /\ AgentOrder(wsCurrentSteps) = FirstSeen(WsTurnSteps)

\* a second event for the first of two agents was applied on both hooks
C14_Witness ==
    /\ \E t \in DOMAIN turns :
          /\ turns[t].pc = "read"
          /\ Len(turns[t].executionTrace) = 3
          /\ AgentOf(turns[t].executionTrace[3]) = "switchboard"
          /\ AgentOrder(currentSteps) = <<"switchboard", "librarian">>
    /\ Len(WsTurnSteps) = 3
    /\ AgentOrder(wsCurrentSteps) = <<"switchboard", "librarian">>

\* new is old with the entry of e's agent replaced by the shallow merge of
\* the entry and e, every other entry as it was
MergedInto(old, new, e) ==
    /\ Len(new) = Len(old)
    /\ \A i \in DOMAIN old :
          IF AgentOf(old[i]) = AgentOf(e)
          THEN /\ DOMAIN new[i] = (DOMAIN old[i]) \cup (DOMAIN e)
               /\ \A f \in DOMAIN new[i] :
                     new[i][f] = IF f \in DOMAIN e THEN e[f] ELSE old[i][f]
          ELSE new[i] = old[i]

Known(steps, e) == \E i \in DOMAIN steps : AgentOf(steps[i]) = AgentOf(e)

\* C15: a step that applies one step event for an agent already in the
\* step list replaces that agent's entry by the shallow merge of the entry
\* and the event and leaves the other entries as they were (useChat and
\* the chat page).
C15_ShallowMerge ==
    [][/\ \A t \in DOMAIN turns :
             (/\ turns[t].pc = "read" /\ turns'[t].pc = "read"
              /\ Len(turns'[t].executionTrace) = Len(turns[t].executionTrace) + 1
              /\ Known(currentSteps, turns'[t].executionTrace[Len(turns'[t].executionTrace)]))
             => MergedInto(currentSteps, currentSteps',
                           turns'[t].executionTrace[Len(turns'[t].executionTrace)])
       /\ (/\ pg.pc = "read" /\ pg'.pc = "read"
           /\ Len(pg'.executionTrace) = Len(pg.executionTrace) + 1
           /\ Known(pgCurrentSteps, pg'.executionTrace[Len(pg'.executionTrace)]))
          => MergedInto(pgCurrentSteps, pgCurrentSteps',
                        pg'.executionTrace[Len(pg'.executionTrace)])]_vars

\* on the page, the entry of the first of two agents carries the fields of
\* its two events, the entry of the other agent is as it came
C15_Witness ==
    /\ ChatReplayOver
    /\ pg.pc = "read"
    /\ pg.executionTrace = <<StepRunningA, StepRunningB, StepCompletedA>>
    /\ pgCurrentSteps = <<Spread(StepRunningA, StepCompletedA), StepRunningB>>

\* C16: while a turn of useChat is in flight, no sendMessage call is
\* accepted: no user message is added and no second stream is started.
C16_RejectWhileInFlight ==
    [][(\E t \in DOMAIN turns : ChatInFlight(t))
       => /\ Len(turns') = Len(turns)
          /\ CountRole(messages', "user") <= CountRole(messages, "user")]_vars

\* the final state of a client after the end-to-end scenario: one user
\* message, one assistant message with content "pong", and two completed
\* steps (the completed entries of the message's execution trace), one for
\* switchboard and one for librarian
CompletedIn(trace) == {i \in DOMAIN trace : trace[i].status = "completed"}

PingOutcome(msgs) ==
    /\ CountRole(msgs, "user") = 1
    /\ CountRole(msgs, "assistant") = 1
    /\ \A i \in DOMAIN msgs : msgs[i].role = "assistant" =>
          /\ msgs[i].content = "pong"
          /\ Cardinality(CompletedIn(TraceOf(msgs[i]))) = 2
          /\ {AgentOf(TraceOf(msgs[i])[k]) : k \in CompletedIn(TraceOf(msgs[i]))}
                = {"switchboard", "librarian"}

\* C17: after "ping" was sent and the end-to-end scenario was received,
\* useChat and the chat page each end with two completed steps and one
\* assistant message "pong".
C17_PingPong ==
    script = PingScenario =>
        /\ ChatReplayOver => PingOutcome(messages)
        /\ (ChatReplayOver /\ pgSubmits = 1 /\ pg.pc = "idle") => PingOutcome(pgMessages)

\* C18: once the record of a job is completed or failed, no step sends a
\* status request for the job and no step changes the record (clearJobs
\* may remove it).
C18_TerminalRecordIsFinal ==
    [][\A j \in DOMAIN jobs :
          Terminal(jobs[j].status)
          => /\ polls[j] = "stopped" /\ polls'[j] = "stopped"
             /\ j \in DOMAIN jobs' => jobs'[j] = jobs[j]]_vars

\* one job has a terminal record and a stopped chain while the other job
\* is still being polled
C18_Witness ==
    \E j \in DOMAIN jobs : \E k \in DOMAIN polls :
        /\ Terminal(jobs[j].status)
        /\ polls[j] = "stopped"
        /\ k # j /\ polls[k] = "timer"
        /\ k \in DOMAIN srv /\ Terminal(srv[k].status)

\* C19: as long as the record of a job is not completed or failed, no step
\* lowers its progress.
C19_ProgressNeverDecreases ==
    [][\A j \in (DOMAIN jobs) \cap (DOMAIN jobs') :
          (~Terminal(jobs[j].status) /\ ~Terminal(jobs'[j].status))
          => jobs'[j].progress >= jobs[j].progress]_vars

\* polls have taken the record of a running job from 0 to full progress
C19_Witness ==
    \E j \in DOMAIN jobs :
        /\ jobs[j].status = "processing"
        /\ jobs[j].progress = MaxProgress
        /\ polls[j] = "timer"

\* C20: a job gets its record in the step that accepts its upload, as
\* pending with progress 0, and its polling starts with that record in
\* place; a step in which an upload request fails changes neither the job
\* map nor the polling.
C20_RecordOnAcceptance ==
    [][/\ \A j \in DOMAIN jobs' :
             j \notin DOMAIN polls
             => /\ jobs'[j].status = "pending" /\ jobs'[j].progress = 0
                /\ \E call \in uploads : call \notin uploads' /\ FileOf(j) \in call.files
       /\ \A j \in DOMAIN polls' : j \notin DOMAIN polls => j \in DOMAIN jobs'
       /\ (\E call \in uploads :
              call \notin uploads' /\ <<call.files, "Upload failed">> \in ingErrors')
          => (jobs' = jobs /\ polls' = polls)]_vars

\* one upload failed and left no record, the other was accepted and has
\* its pending record while its first status request is out
C20_Witness ==
    \E f \in Files : \E g \in Files :
        /\ <<{f}, "Upload failed">> \in ingErrors
        /\ JobOf(f) \notin DOMAIN jobs /\ JobOf(f) \notin DOMAIN polls
        /\ JobOf(g) \in DOMAIN jobs
        /\ jobs[JobOf(g)] = InitialJob(JobOf(g), g)
        /\ polls[JobOf(g)] = "request"

NotFoundError(j) == <<{j}, NotFoundMessage>>
FailedError(j) == <<{j}, "pipeline failed">>

\* C21: a poll that reports an unknown job id hands onError the lookup
\* error and leaves the job map as it was; a poll that reports a failed job
\* stores a record with status failed; no job ends up with both outcomes,
\* and a record with status failed always comes with the failure error.
C21_NotFoundIsNotFailed ==
    [][\A j \in DOMAIN polls :
          /\ (NotFoundError(j) \in ingErrors' /\ NotFoundError(j) \notin ingErrors)
             => (jobs' = jobs /\ FailedError(j) \notin ingErrors')
          /\ (FailedError(j) \in ingErrors' /\ FailedError(j) \notin ingErrors)
             => /\ j \in DOMAIN jobs' /\ jobs'[j].status = "failed"
                /\ NotFoundError(j) \notin ingErrors'
          /\ (j \in DOMAIN jobs' /\ jobs'[j].status = "failed")
             => FailedError(j) \in ingErrors']_vars

\* one job was reported unknown and keeps its last record, the other
\* failed and has a failed record
C21_Witness ==
    \E j \in DOMAIN jobs : \E k \in DOMAIN jobs :
        /\ NotFoundError(j) \in ingErrors
        /\ jobs[j].status = "processing"
        /\ polls[j] = "stopped"
        /\ FailedError(k) \in ingErrors
        /\ jobs[k].status = "failed"

\* C22: a step of the poll chain of one job, or the acceptance of an
\* upload, leaves the record of every job whose chain it does not move as
\* it was.
C22_JobsAreIndependent ==
    [][polls' # polls =>
          \A k \in DOMAIN jobs :
              polls'[k] = polls[k] => (k \in DOMAIN jobs' /\ jobs'[k] = jobs[k])]_vars

\* polls of two jobs have been applied in turn: both records are beyond
\* their initial state and differ in progress
C22_Witness ==
    \E j \in DOMAIN jobs : \E k \in DOMAIN jobs :
        /\ j # k
        /\ jobs[j].status = "processing" /\ jobs[k].status = "processing"
        /\ jobs[j].progress = 1 /\ jobs[k].progress = MaxProgress
        /\ polls[j] = "timer" /\ polls[k] = "timer"

\* the step handles an 'error' message of the current turn
WsErrorHandled ==
    /\ Len(wsHandled') = Len(wsHandled) + 1
    /\ wsHandled'[Len(wsHandled')].type = "error"

\* C23: an 'error' message is surfaced to the caller: after it was handled
\* the returned state carries the failure (an error field, or a message
\* entry reporting it that is not an assistant reply), and it appends no
\* assistant message.
C23_ErrorIsSurfaced ==
    [][WsErrorHandled
       => /\ \/ Has(WsReturned', "error")
             \/ /\ Len(WsReturned'.messages) > Len(WsReturned.messages)
                /\ WsReturned'.messages[Len(WsReturned'.messages)].role # "assistant"
          /\ CountRole(wsMessages', "assistant") = CountRole(wsMessages, "assistant")]_vars

\* the calls of sendMessage that are running, and those whose stream is
\* being read
InFlight == {t \in DOMAIN turns : ChatInFlight(t)}
Consuming == {t \in DOMAIN turns : turns[t].pc = "read"}

\* C25: at most one stream is being consumed at any time, and isLoading is
\* true exactly while a call is running (from the request to the end of
\* its stream).
C25_OneStreamWhileLoading ==
    /\ Cardinality(Consuming) <= 1
    /\ isLoading <=> InFlight # {}

\* C27: sendMessage starts a turn (user message added, isLoading set) only
\* on an open socket, where the message is delivered and its answer can
\* end the turn.
C27_TurnStartsOnlyWhenOpen ==
    [][(wsSent' = wsSent + 1)
       => \/ wsConn = "open"
          \/ (wsIsLoading' = wsIsLoading /\ wsMessages' = wsMessages)]_vars

\* C29: an empty message list (initially, or after clearMessages) stays
\* empty until a sendMessage call is accepted: only the user message of a
\* new call makes it non-empty, never the reply of a call that was running.
C29_ClearedStaysEmpty ==
    [][(messages = <<>> /\ messages' # <<>>)
       => /\ Len(turns') = Len(turns) + 1
          /\ messages'[1].role = "user"]_vars

\* the step in which call t runs setConversationId: its local
\* newConversationId goes from unset to the id of a chunk
SetsConversationId(t) ==
    /\ turns[t].pc = "read" /\ turns'[t].pc = "read"
    /\ turns[t].newConversationId = NoId
    /\ turns'[t].newConversationId # NoId

\* C30: conversationId is assigned only while it is unset, so at most once
\* between two clearMessages calls; the assignment gives it the id of the
\* chunk, and no other step of a call changes it.
C30_ConversationIdSetOnce ==
    [][\A t \in DOMAIN turns :
          /\ SetsConversationId(t)
                => (conversationId = NoId /\ conversationId' = turns'[t].newConversationId)
          /\ (turns'[t] # turns[t] /\ ~SetsConversationId(t))
                => conversationId' = conversationId]_vars

\* C24: in InlineUpload the progress of a file whose upload has started
\* and that is not completed yet never decreases.
C24_InlineProgressNeverDecreases ==
    [][component = "InlineUpload" =>
          \A i \in DOMAIN upFiles :
              upFiles[i].status \in {"uploading", "processing"}
              => upFiles'[i].progress >= upFiles[i].progress]_vars

\* the upload attempt of file id is over: its request has settled and the
\* call is not in the code that handles it any more
AttemptEnded(id) ==
    /\ id \in DOMAIN upPosted
    /\ ~(upCall.pc \in {"json", "catch"} /\ UpCurrent = id)

\* C26: a completed file had a 2xx response to its upload request; a file
\* whose request was rejected or answered non-2xx is never completed, and
\* is failed once its attempt is over.
C26_CompletedOnlyAfter2xx ==
    \A i \in DOMAIN upFiles :
        LET f == upFiles[i]
        IN  /\ f.status = "completed"
                => (f.id \in DOMAIN upPosted /\ upPosted[f.id] = "ok")
            /\ (f.id \in DOMAIN upPosted /\ upPosted[f.id] \in {"non2xx", "rejected"})
                => /\ f.status # "completed"
                   /\ AttemptEnded(f.id) => f.status = "failed"

\* C28: an interval runs for a file only while the call is busy with the
\* upload attempt of that file; it is cleared on every path out of the
\* attempt.
C28_IntervalClearedOnEveryPath ==
    \A id \in upIntervals : upCall.pc \in {"fetch", "json", "catch"} /\ UpCurrent = id

=============================================================================
